---- MODULE Spec2Model ----
(***************************************************************************)
(* A model of doc/utils/maas_checks_util.py: the criteria mini-language    *)
(* parser (_get_criteria), the undeclared-variable resolver                *)
(* (_get_check_details) and the extraction run (check_details).            *)
(*                                                                         *)
(* Text is a sequence of one-character strings, so that the string         *)
(* operations of the source (split, regex search, startswith, find,        *)
(* slicing, strip) are computed on characters as Python computes them.     *)
(***************************************************************************)
EXTENDS Integers, Sequences, FiniteSets, TLC

VARIABLES
    \* ---- check_details (the generator over the templates directory) ----
    templates,          \* the *.yaml.j2 files of the directory, in glob order
    pos,                \* position of the `for template_file in ...` loop
    pc,                 \* "scan", "details", "done" (exhausted), "failed" (raised)
    config_variables,   \* the mapping _get_defaults returned, mutated in place
    loaded,             \* history: the file names handed to env.get_template
    output,             \* the (label, details) pairs yielded so far
    yielded_for,        \* history: the file each pair was yielded for
    \* ---- _get_check_details (the call in progress) ----
    rendered_yaml,      \* the argument: the rendered document
    item,               \* position of the loop over chain(alarms, check_details)
    details,            \* local `details`
    \* ---- _get_criteria (one generator instance) ----
    criteria,           \* the argument: the rendered criteria text
    lines,              \* local `lines`
    idx,                \* position of the `for line in lines` loop (next line)
    condition,          \* local `condition`: None or Some(text)
    records,            \* the records yielded so far, in order
    yielded_at          \* history: the line at which each record was yielded

run_vars == <<templates, pos, pc, config_variables, loaded, output, yielded_for,
              rendered_yaml, item, details>>
criteria_vars == <<criteria, lines, idx, condition, records, yielded_at>>
vars == <<run_vars, criteria_vars>>

(***************************************************************************)
(* Bounds                                                                  *)
(***************************************************************************)
\* A criteria text is made of at most MaxPieces pieces of Pieces.
MaxPieces == 5
\* A rendered document drawn for the resolver holds at most MaxItems alarms
\* and details together.
MaxItems == 2
\* A directory of several templates holds at most MaxTemplates files.
MaxTemplates == 3

(***************************************************************************)
(* Python values and string operations                                     *)
(***************************************************************************)
\* Python's None, and a value that is not None (an Optional as a sequence
\* of length at most one, so that the empty string is not None).
None == <<>>
Some(v) == <<v>>

Min(a, b) == IF a < b THEN a ELSE b
Max(a, b) == IF a > b THEN a ELSE b

\* s[a:b] of Python, a and b zero-based, negative values counted from the end.
PySlice(s, a, b) ==
    LET n  == Len(s)
        lo == IF a < 0 THEN Max(n + a, 0) ELSE Min(a, n)
        hi == IF b < 0 THEN Max(n + b, 0) ELSE Min(b, n)
    IN  IF lo >= hi THEN <<>> ELSE SubSeq(s, lo + 1, hi)

\* s[a:] of Python.
PySliceFrom(s, a) == PySlice(s, a, Len(s))

\* s.startswith(p)
StartsWith(s, p) == Len(p) <= Len(s) /\ SubSeq(s, 1, Len(p)) = p

\* s.find(c): the zero-based index of the first c in s, -1 when there is none.
PyFind(s, c) ==
    IF \E i \in 1..Len(s) : s[i] = c
    THEN (CHOOSE i \in 1..Len(s) : s[i] = c /\ \A j \in 1..(i - 1) : s[j] # c) - 1
    ELSE -1

Whitespace == {" ", "\t", "\n"}

\* s.strip()
PyStrip(s) ==
    LET keep == {i \in 1..Len(s) : s[i] \notin Whitespace}
    IN  IF keep = {} THEN <<>>
        ELSE SubSeq(s, CHOOSE i \in keep : \A j \in keep : i <= j,
                       CHOOSE i \in keep : \A j \in keep : i >= j)

\* s.split(sep): the pieces of s between the occurrences of the character sep.
RECURSIVE PySplit(_, _)
PySplit(s, sep) ==
    LET k == PyFind(s, sep)
    IN  IF k = -1 THEN <<s>>
        ELSE <<PySlice(s, 0, k)>> \o PySplit(PySliceFrom(s, k + 1), sep)

(***************************************************************************)
(* CRITERIA = re.compile("\\(([^()]*|\\([^()]*\\))*\\)")                   *)
(***************************************************************************)
\* The position of the first parenthesis of line at or after position i,
\* Len(line) + 1 when there is none.
RECURSIVE NextParen(_, _)
NextParen(line, i) ==
    IF i > Len(line) THEN i
    ELSE IF line[i] \in {"(", ")"} THEN i
    ELSE NextParen(line, i + 1)

\* The regex anchored at an opening parenthesis, its body scanned from
\* position i: runs of non-parenthesis characters and groups "(...)" that
\* hold no parenthesis, up to the closing parenthesis. The position of that
\* closing parenthesis, 0 when the regex does not match from there.
RECURSIVE MatchBody(_, _)
MatchBody(line, i) ==
    LET p == NextParen(line, i)
    IN  IF p > Len(line) THEN 0
        ELSE IF line[p] = ")" THEN p
        ELSE LET q == NextParen(line, p + 1)
             IN  IF q > Len(line) \/ line[q] = "(" THEN 0
                 ELSE MatchBody(line, q + 1)

\* The end of the match that starts at position s, 0 when there is none.
MatchAt(line, s) ==
    IF s <= Len(line) /\ line[s] = "(" THEN MatchBody(line, s + 1) ELSE 0

NoMatch == <<0, 0>>

\* CRITERIA.search(line) on the part of line from position from on: the
\* leftmost match as <<start, end>>, NoMatch when there is none.
RECURSIVE SearchFrom(_, _)
SearchFrom(line, from) ==
    IF from > Len(line) THEN NoMatch
    ELSE IF MatchAt(line, from) # 0 THEN <<from, MatchAt(line, from)>>
    ELSE SearchFrom(line, from + 1)

CRITERIA_search(line) == SearchFrom(line, 1)

\* match.group(0)
Group0(line, m) == SubSeq(line, m[1], m[2])

(***************************************************************************)
(* _get_criteria                                                           *)
(***************************************************************************)
status_names == << <<"C", "R", "I", "T", "I", "C", "A", "L">>,
                   <<"W", "A", "R", "N", "I", "N", "G">>,
                   <<"O", "K">> >>

default == <<"d", "e", "f", "a", "u", "l", "t">>

\* content = match.group(0)[1:-1]
ClauseContent(line, m) == PySlice(Group0(line, m), 1, -1)

\* any([content.startswith(status) for status in status_names])
IsStatusContent(content) ==
    \E k \in 1..Len(status_names) : StartsWith(content, status_names[k])

\* if condition is None: condition = "default"
ConditionOfRecord(cond) == IF cond = None THEN default ELSE cond[1]

\* The dictionary yielded for a status clause.
CriteriaRecord(content, cond) ==
    LET comma == PyFind(content, ",")
    IN  [status    |-> PySlice(content, 0, comma),
         message   |-> PySlice(PyStrip(PySliceFrom(content, comma + 1)), 1, -1),
         condition |-> ConditionOfRecord(cond)]

\* condition = None, after the yield
ConditionAfterYieldKept(cond) == cond
ConditionAfterYield(cond) == None

\* condition = content, for a clause that is no status clause
ConditionAfterClause(content, cond) == Some(content)

\* One pass of the body of `for line in lines`: what is yielded (a sequence
\* of no or one record) and the value of `condition` after it.
LoopBody(line, cond) ==
    LET m == CRITERIA_search(line)
    IN  IF m = NoMatch THEN [yield |-> <<>>, condition |-> cond]
        ELSE LET content == ClauseContent(line, m)
             IN  IF IsStatusContent(content)
                 THEN [yield     |-> <<CriteriaRecord(content, cond)>>,
                       condition |-> ConditionAfterYield(cond)]
                 ELSE [yield     |-> <<>>,
                       condition |-> ConditionAfterClause(content, cond)]

\* list(_get_criteria(criteria)) computed from the loop over ls, with cond
\* the pending condition.
RECURSIVE CriteriaLoop(_, _)
CriteriaLoop(ls, cond) ==
    IF ls = <<>> THEN <<>>
    ELSE LET r == LoopBody(Head(ls), cond)
         IN  r.yield \o CriteriaLoop(Tail(ls), r.condition)

_get_criteria(text) == CriteriaLoop(PySplit(text, "\n"), None)

(***************************************************************************)
(* The criteria texts the generator is run on                              *)
(***************************************************************************)
Pieces ==
    { <<"\n">>,
      <<"(", "x", ")">>,                                       \* (x)
      <<"(", "O", "K", ",", " ", "\"", "m", "\"", ")">>,       \* (OK, "m")
      <<"(", "W", "A", "R", "N", "I", "N", "G", ")">>,         \* (WARNING)
      <<"(", "C", "R", "I", "T", "I", "C", "A", "L", "x", ",", "m", ")">>,
      <<"(">>,
      <<")">> }

RECURSIVE Concat(_)
Concat(ps) == IF ps = <<>> THEN <<>> ELSE Head(ps) \o Concat(Tail(ps))

Texts == { Concat(ps) : ps \in UNION { [1..n -> Pieces] : n \in 0..MaxPieces } }

(***************************************************************************)
(* Templates, rendered documents and ConfigVariables                       *)
(*                                                                         *)
(* A template string (an alarm's criteria, a detail's value) is a sequence *)
(* of tokens: literal text, or a reference {{ name }} to a variable.       *)
(* Names, keys, labels and file names are atomic strings; values and       *)
(* literal text are sequences of characters.                               *)
(***************************************************************************)
Lit(text) == [kind |-> "lit", name |-> "", text |-> text]
Var(name) == [kind |-> "var", name |-> name, text |-> <<>>]

\* jinja2.meta.find_undeclared_variables(environment.parse(value))
find_undeclared_variables(value) ==
    {value[i].name : i \in {j \in 1..Len(value) : value[j].kind = "var"}}

\* jinja2.Template(value).render(config): a reference renders as the value
\* of its name, as the empty string when config does not define the name.
RECURSIVE Render(_, _)
Render(value, config) ==
    IF value = <<>> THEN <<>>
    ELSE LET t == Head(value)
             out == IF t.kind = "lit" THEN t.text
                    ELSE IF t.name \in DOMAIN config THEN config[t.name]
                    ELSE <<>>
         IN  out \o Render(Tail(value), config)

\* A dict of Python as the sequence of its (key, value) items, the keys
\* pairwise different.
Keys(items) == {items[i].key : i \in 1..Len(items)}

(***************************************************************************)
(* _get_check_details                                                      *)
(***************************************************************************)
ignore == {"maas_alarm_local_consecutive_count",
           "volume_group",
           "console_service_name"}

redirect_keys == <<"warning_threshold", "critical_threshold">>

redirect ==
    [k \in {"warning_threshold", "critical_threshold"} |->
        IF k = "warning_threshold" THEN "maas_filesystem_warning_threshold"
        ELSE "maas_filesystem_critical_threshold"]

\* alarms = {key: value["criteria"] for key, value in alarms.items()}
Alarms(doc) == doc.alarms

\* check_details = rendered_yaml.get("details") or {}, "args" popped
CheckDetails(doc) == SelectSeq(doc.details, LAMBDA it : it.key # "args")

\* itertools.chain(alarms.items(), check_details.items())
Chain(doc) == Alarms(doc) \o CheckDetails(doc)

\* for item in ignore: if item in undeclared: undeclared.remove(item)
RemoveIgnoredNothing(undeclared) == undeclared
RemoveIgnored(undeclared) == undeclared \ ignore

\* config_variables[redirect_key] = config_variables[redirect_value]
RedirectWriteNothing(config, rk) == config
RedirectWriteBackwards(config, rk) ==
    IF rk \in DOMAIN config THEN (redirect[rk] :> config[rk]) @@ config ELSE config
RedirectWrite(config, rk) == (rk :> config[redirect[rk]]) @@ config

\* One pass of `for redirect_key, redirect_value in redirect.items()` on
\* st = [undeclared, config, ok]; ok becomes FALSE when the lookup of the
\* redirect target raises KeyError.
RedirectOne(st, rk) ==
    IF ~st.ok \/ rk \notin st.undeclared THEN st
    ELSE LET und == (st.undeclared \ {rk}) \cup {redirect[rk]}
         IN  IF redirect[rk] \notin DOMAIN st.config
             THEN [undeclared |-> und, config |-> st.config, ok |-> FALSE]
             ELSE [undeclared |-> und, config |-> RedirectWrite(st.config, rk),
                   ok |-> TRUE]

RECURSIVE RedirectLoop(_, _)
RedirectLoop(st, rks) ==
    IF rks = <<>> THEN st ELSE RedirectLoop(RedirectOne(st, Head(rks)), Tail(rks))

\* defaults = {key: config_variables[key] for key in undeclared} raises
\* KeyError when a name is no key of config_variables.
DefaultMissingIgnored(undeclared, config) == FALSE
DefaultMissing(undeclared, config) == ~(undeclared \subseteq DOMAIN config)

Defaults(undeclared, config) ==
    [k \in undeclared \cap DOMAIN config |-> config[k]]

\* if key in check_details: key = "_check_variables"
OutKey(key, doc) ==
    IF key \in Keys(CheckDetails(doc)) THEN "_check_variables" ELSE key

\* details[key].update(defaults), or details[key] = defaults
MergeDefaults(dets, key, defaults) ==
    IF key \in DOMAIN dets
    THEN (key :> (defaults @@ dets[key])) @@ dets
    ELSE (key :> defaults) @@ dets

\* details[key]["_criteria"] = _get_criteria(rendered_criteria), the
\* generator taken as the list of the records it yields
StoreCriteria(dets, key, value, config) ==
    (key :> (("_criteria" :> _get_criteria(Render(value, config))) @@ dets[key]))
        @@ dets

\* One pass of the body of the loop over chain(alarms, check_details), on
\* the item (key, value), with dets the details so far. kind tells how the
\* pass ends: "skip" (file, url), "raise" (KeyError), "empty" (a check-wide
\* key without defaults), "store".
ItemOutcome(doc, key, value, dets, config) ==
    IF key \in {"file", "url"}
    THEN [kind |-> "skip", details |-> dets, config |-> config]
    ELSE LET r == RedirectLoop(
                    [undeclared |-> RemoveIgnored(find_undeclared_variables(value)),
                     config |-> config, ok |-> TRUE], redirect_keys)
         IN  IF ~r.ok \/ DefaultMissing(r.undeclared, r.config)
             THEN [kind |-> "raise", details |-> dets, config |-> r.config]
             ELSE LET defaults == Defaults(r.undeclared, r.config)
                      out      == OutKey(key, doc)
                  IN  IF key \in Keys(CheckDetails(doc)) /\ DOMAIN defaults = {}
                      THEN [kind |-> "empty", details |-> dets,
                            config |-> r.config]
                      ELSE LET merged == MergeDefaults(dets, out, defaults)
                           IN  [kind    |-> "store",
                                details |-> IF out \in Keys(Alarms(doc))
                                            THEN StoreCriteria(merged, out, value,
                                                               r.config)
                                            ELSE merged,
                                config  |-> r.config]

\* The loop from item i on: [ok, details, config], ok FALSE when it raised.
RECURSIVE DetailsLoop(_, _, _, _)
DetailsLoop(doc, i, dets, config) ==
    IF i > Len(Chain(doc)) THEN [ok |-> TRUE, details |-> dets, config |-> config]
    ELSE LET o == ItemOutcome(doc, Chain(doc)[i].key, Chain(doc)[i].value,
                              dets, config)
         IN  IF o.kind = "raise"
             THEN [ok |-> FALSE, details |-> o.details, config |-> o.config]
             ELSE DetailsLoop(doc, i + 1, o.details, o.config)

\* The whole call _get_check_details(rendered_yaml, config_variables, env).
_get_check_details(doc, config) == DetailsLoop(doc, 1, <<>>, config)

(***************************************************************************)
(* check_details                                                           *)
(***************************************************************************)
\* The two `continue` tests on template_file.name
IsSkippedBaseOnly(name) == name = "checks_base.yaml.j2"
IsSkipped(name) ==
    name = "checks_base.yaml.j2" \/ name = "ceph_rgw_stats.yaml.j2"

\* label = template.module.label, rendered_yaml.get("label") on AttributeError
Label(t) == IF t.module_label # None THEN t.module_label[1] ELSE t.doc.label

(***************************************************************************)
(* The inputs: ConfigVariables and the templates directory                 *)
(***************************************************************************)
\* What the vars files may define, with maas_swift_access_url_key, the
\* entry _get_defaults always adds.
FullConfig ==
    [n \in {"maas_alarm_local_consecutive_count", "volume_group",
            "console_service_name", "maas_filesystem_warning_threshold",
            "maas_filesystem_critical_threshold", "private_ping_check_count",
            "warning_threshold", "maas_swift_access_url_key"} |->
        CASE n = "maas_alarm_local_consecutive_count" -> <<"3">>
          [] n = "volume_group" -> <<"v", "g">>
          [] n = "console_service_name" -> <<"c", "s">>
          [] n = "maas_filesystem_warning_threshold" -> <<"8", "0">>
          [] n = "maas_filesystem_critical_threshold" -> <<"9", "0">>
          [] n = "private_ping_check_count" -> <<"6">>
          [] n = "warning_threshold" -> <<"1">>
          [] n = "maas_swift_access_url_key" ->
                <<"m", "a", "a", "s", "_", "s", "w", "i", "f", "t", "_",
                  "a", "c", "c", "e", "s", "s", "_", "u", "r", "l", "_",
                  "k", "e", "y">>]

\* The names a vars directory may leave out.
OptionalNames == {"maas_filesystem_critical_threshold", "warning_threshold"}

Restrict(f, S) == [k \in S |-> f[k]]

Configs ==
    {Restrict(FullConfig, DOMAIN FullConfig \ out) : out \in SUBSET OptionalNames}

\* The template strings of the documents.
Exprs ==
    { \* (x)\n(OK,m)
      <<Lit(<<"(", "x", ")", "\n", "(", "O", "K", ",", "m", ")">>)>>,
      \* (x>{{ warning_threshold }})\n(WARNING,m)
      <<Lit(<<"(", "x", ">">>), Var("warning_threshold"),
        Lit(<<")", "\n", "(", "W", "A", "R", "N", "I", "N", "G", ",", "m", ")">>)>>,
      \* c={{ maas_alarm_local_consecutive_count }}\n
      \* (x>{{ critical_threshold }})\n(CRITICAL,m)
      <<Lit(<<"c", "=">>), Var("maas_alarm_local_consecutive_count"),
        Lit(<<"\n", "(", "x", ">">>), Var("critical_threshold"),
        Lit(<<")", "\n", "(", "C", "R", "I", "T", "I", "C", "A", "L", ",", "m", ")">>)>>,
      \* {{ private_ping_check_count }}
      <<Var("private_ping_check_count")>>,
      \* {{ undocumented_var }}
      <<Var("undocumented_var")>>,
      \* {{ volume_group }}
      <<Var("volume_group")>> }

AlarmKeys == {"Packet_loss", "timeout", "url"}
DetailKeys == {"timeout", "period", "file", "args"}

ItemsOver(keys, n) ==
    {s \in [1..n -> [key : keys, value : Exprs]] :
        \A i, j \in 1..n : i # j => s[i].key # s[j].key}

\* The rendered documents with at most MaxItems alarms and details.
Docs ==
    UNION { { [label |-> "check", alarms |-> a, details |-> d] :
                a \in ItemsOver(AlarmKeys, na), d \in ItemsOver(DetailKeys, n - na) } :
            <<n, na>> \in {x \in (0..MaxItems) \X (0..MaxItems) : x[2] <= x[1]} }

\* A directory of one check template, its rendered document any of Docs.
OneCheck ==
    { <<[name |-> "check.yaml.j2", parses |-> TRUE, module_label |-> None,
         doc |-> d]>> : d \in Docs }

Doc(label, alarms, dets) == [label |-> label, alarms |-> alarms, details |-> dets]
Item(key, value) == [key |-> key, value |-> value]

\* The files of a directory of several templates: the two skipped files,
\* three checks, a template that does not parse and a check that refers to
\* a variable without default.
TemplateFiles ==
    { [name |-> "checks_base.yaml.j2", parses |-> TRUE, module_label |-> None,
       doc |-> Doc("base", <<>>, <<>>)],
      [name |-> "ceph_rgw_stats.yaml.j2", parses |-> FALSE, module_label |-> None,
       doc |-> Doc("ceph_rgw_stats", <<>>, <<>>)],
      [name |-> "private_ping_check.yaml.j2", parses |-> TRUE,
       module_label |-> Some("private_ping_check--inventory_hostname"),
       doc |-> Doc("private_ping_check",
                   <<Item("Packet_loss",
                          <<Lit(<<"(", "x", ")", "\n", "(", "O", "K", ",", "m", ")">>)>>)>>,
                   <<Item("count", <<Var("private_ping_check_count")>>)>>)],
      [name |-> "filesystem.yaml.j2", parses |-> TRUE, module_label |-> None,
       doc |-> Doc("filesystem",
                   <<Item("Disk_space",
                          <<Lit(<<"(", "x", ">">>), Var("warning_threshold"),
                            Lit(<<")", "\n", "(", "W", "A", "R", "N", "I", "N", "G",
                                  ",", "m", ")">>)>>)>>,
                   <<>>)],
      [name |-> "broken.yaml.j2", parses |-> FALSE, module_label |-> None,
       doc |-> Doc("broken", <<>>, <<>>)],
      [name |-> "undocumented.yaml.j2", parses |-> TRUE, module_label |-> None,
       doc |-> Doc("undocumented",
                   <<Item("Alarm", <<Var("undocumented_var")>>)>>, <<>>)] }

\* The directories of several templates: the files pairwise different, in
\* any order.
SeveralChecks ==
    UNION { {s \in [1..n -> TemplateFiles] :
                \A i, j \in 1..n : i # j => s[i].name # s[j].name} :
            n \in 0..MaxTemplates }

Directories == OneCheck \cup SeveralChecks

(***************************************************************************)
(* The generator _get_criteria as a state machine: one action per outcome  *)
(* of the loop body on the next line.                                      *)
(***************************************************************************)
\* No extraction run.
IdleRun ==
    /\ templates = <<>>
    /\ pos = 1
    /\ pc = "done"
    /\ config_variables = <<>>
    /\ loaded = {}
    /\ output = <<>>
    /\ yielded_for = <<>>
    /\ rendered_yaml = Doc("", <<>>, <<>>)
    /\ item = 1
    /\ details = <<>>

\* No criteria generator.
IdleCriteria ==
    /\ criteria = <<>>
    /\ lines = <<>>
    /\ idx = 1
    /\ condition = None
    /\ records = <<>>
    /\ yielded_at = <<>>

InitCriteria ==
    /\ criteria \in Texts
    /\ lines = PySplit(criteria, "\n")
    /\ idx = 1
    /\ condition = None
    /\ records = <<>>
    /\ yielded_at = <<>>
    /\ IdleRun

\* The line holds no clause: nothing changes.
LineWithoutClause ==
    /\ idx <= Len(lines)
    /\ CRITERIA_search(lines[idx]) = NoMatch
    /\ idx' = idx + 1
    /\ condition' = LoopBody(lines[idx], condition).condition
    /\ UNCHANGED <<criteria, lines, records, yielded_at, run_vars>>

\* The line's first clause is a status clause: a record is yielded.
YieldRecord ==
    /\ idx <= Len(lines)
    /\ CRITERIA_search(lines[idx]) # NoMatch
    /\ IsStatusContent(ClauseContent(lines[idx], CRITERIA_search(lines[idx])))
    /\ records' = records \o LoopBody(lines[idx], condition).yield
    /\ yielded_at' = Append(yielded_at, idx)
    /\ condition' = LoopBody(lines[idx], condition).condition
    /\ idx' = idx + 1
    /\ UNCHANGED <<criteria, lines, run_vars>>

\* The line's first clause is no status clause: it becomes the condition.
StoreCondition ==
    /\ idx <= Len(lines)
    /\ CRITERIA_search(lines[idx]) # NoMatch
    /\ ~IsStatusContent(ClauseContent(lines[idx], CRITERIA_search(lines[idx])))
    /\ records' = records \o LoopBody(lines[idx], condition).yield
    /\ condition' = LoopBody(lines[idx], condition).condition
    /\ idx' = idx + 1
    /\ UNCHANGED <<criteria, lines, yielded_at, run_vars>>

NextCriteria == LineWithoutClause \/ YieldRecord \/ StoreCondition

SpecCriteria == InitCriteria /\ [][NextCriteria]_vars

\* The generator is exhausted.
CriteriaDone == idx > Len(lines)

(***************************************************************************)
(* The generator check_details as a state machine: the loop over the       *)
(* template files and, inside it, the loop of _get_check_details over the  *)
(* items of the rendered document.                                         *)
(***************************************************************************)
Init ==
    /\ templates \in Directories
    /\ config_variables \in Configs
    /\ pos = 1
    /\ pc = "scan"
    /\ loaded = {}
    /\ output = <<>>
    /\ yielded_for = <<>>
    /\ rendered_yaml = Doc("", <<>>, <<>>)
    /\ item = 1
    /\ details = <<>>
    /\ IdleCriteria

\* The file is one of the two skipped by name: continue.
SkipTemplate ==
    /\ pc = "scan"
    /\ pos <= Len(templates)
    /\ IsSkipped(templates[pos].name)
    /\ pos' = pos + 1
    /\ UNCHANGED <<templates, pc, config_variables, loaded, output, yielded_for,
                   rendered_yaml, item, details, criteria_vars>>

\* env.get_template, template.render and yaml.load give the rendered
\* document; the call of _get_check_details starts.
LoadTemplate ==
    /\ pc = "scan"
    /\ pos <= Len(templates)
    /\ ~IsSkipped(templates[pos].name)
    /\ templates[pos].parses
    /\ loaded' = loaded \cup {templates[pos].name}
    /\ rendered_yaml' = templates[pos].doc
    /\ item' = 1
    /\ details' = <<>>
    /\ pc' = "details"
    /\ UNCHANGED <<templates, pos, config_variables, output, yielded_for,
                   criteria_vars>>

\* env.get_template raises TemplateSyntaxError: it leaves the generator.
TemplateFails ==
    /\ pc = "scan"
    /\ pos <= Len(templates)
    /\ ~IsSkipped(templates[pos].name)
    /\ ~templates[pos].parses
    /\ loaded' = loaded \cup {templates[pos].name}
    /\ pc' = "failed"
    /\ UNCHANGED <<templates, pos, config_variables, output, yielded_for,
                   rendered_yaml, item, details, criteria_vars>>

\* The outcome of the loop body of _get_check_details on the current item.
CurrentOutcome ==
    ItemOutcome(rendered_yaml, Chain(rendered_yaml)[item].key,
                Chain(rendered_yaml)[item].value, details, config_variables)

InDetailsLoop == pc = "details" /\ item <= Len(Chain(rendered_yaml))

\* The key is file or url: continue.
SkipFileUrl ==
    /\ InDetailsLoop
    /\ CurrentOutcome.kind = "skip"
    /\ item' = item + 1
    /\ UNCHANGED <<templates, pos, pc, config_variables, loaded, output,
                   yielded_for, rendered_yaml, details, criteria_vars>>

\* A lookup in config_variables raises KeyError: it leaves
\* _get_check_details and the generator, after the redirections written.
RaiseKeyError ==
    /\ InDetailsLoop
    /\ CurrentOutcome.kind = "raise"
    /\ config_variables' = CurrentOutcome.config
    /\ pc' = "failed"
    /\ UNCHANGED <<templates, pos, loaded, output, yielded_for, rendered_yaml,
                   item, details, criteria_vars>>

\* A check-wide key without defaults: continue.
DropEmptyCheckVariables ==
    /\ InDetailsLoop
    /\ CurrentOutcome.kind = "empty"
    /\ config_variables' = CurrentOutcome.config
    /\ item' = item + 1
    /\ UNCHANGED <<templates, pos, pc, loaded, output, yielded_for,
                   rendered_yaml, details, criteria_vars>>

\* The defaults are stored in details, with the criteria for an alarm.
StoreDefaults ==
    /\ InDetailsLoop
    /\ CurrentOutcome.kind = "store"
    /\ config_variables' = CurrentOutcome.config
    /\ details' = CurrentOutcome.details
    /\ item' = item + 1
    /\ UNCHANGED <<templates, pos, pc, loaded, output, yielded_for,
                   rendered_yaml, criteria_vars>>

\* _get_check_details returns details; check_details yields (label, details).
ReturnAndYield ==
    /\ pc = "details"
    /\ item > Len(Chain(rendered_yaml))
    /\ output' = Append(output, [label |-> Label(templates[pos]),
                                 details |-> details])
    /\ yielded_for' = Append(yielded_for, templates[pos].name)
    /\ pos' = pos + 1
    /\ pc' = "scan"
    /\ UNCHANGED <<templates, config_variables, loaded, rendered_yaml, item,
                   details, criteria_vars>>

\* No file is left: the generator is exhausted.
Exhausted ==
    /\ pc = "scan"
    /\ pos > Len(templates)
    /\ pc' = "done"
    /\ UNCHANGED <<templates, pos, config_variables, loaded, output, yielded_for,
                   rendered_yaml, item, details, criteria_vars>>

Next ==
    \/ SkipTemplate
    \/ LoadTemplate
    \/ TemplateFails
    \/ SkipFileUrl
    \/ RaiseKeyError
    \/ DropEmptyCheckVariables
    \/ StoreDefaults
    \/ ReturnAndYield
    \/ Exhausted

Spec == Init /\ [][Next]_vars

(***************************************************************************)
(* Properties of _get_criteria                                             *)
(***************************************************************************)
\* The lines strictly between lo and hi whose search finds a clause.
ClauseLinesBetween(lo, hi) ==
    {j \in (lo + 1)..(hi - 1) : CRITERIA_search(lines[j]) # NoMatch}

SetMax(S) == CHOOSE i \in S : \A j \in S : i >= j

\* The condition the k-th record must carry: the content of the clause of
\* the last clause line after the previous record's line, "default" when
\* there is no such line.
ExpectedCondition(k) ==
    LET prev == IF k = 1 THEN 0 ELSE yielded_at[k - 1]
        P    == ClauseLinesBetween(prev, yielded_at[k])
    IN  IF P = {} THEN default
        ELSE ClauseContent(lines[SetMax(P)], CRITERIA_search(lines[SetMax(P)]))

\* C1: every yielded record's condition is the content of the condition
\* clause processed most recently on an earlier line since the previous
\* yielded record, and is "default" when no condition clause was processed
\* since the previous record (or since the start of the text); right after
\* a record is yielded the pending condition is None again.
C1_ConditionPairsWithNextStatus ==
    /\ \A k \in 1..Len(records) : records[k].condition = ExpectedCondition(k)
    /\ (yielded_at # <<>> /\ yielded_at[Len(yielded_at)] = idx - 1)
          => condition = None

\* C1 witness: a condition clause was paired with the status clause that
\* followed it, and the next status clause, with no condition clause of its
\* own, got "default".
C1_Witness ==
    /\ Len(records) = 2
    /\ records[1].condition = <<"x">>
    /\ records[2].condition = default
    /\ yielded_at = <<2, 3>>

\* Every clause of a line from position from on, as re.finditer would list
\* them: successive leftmost matches that do not overlap.
RECURSIVE ClausesFrom(_, _)
ClausesFrom(line, from) ==
    LET m == SearchFrom(line, from)
    IN  IF m = NoMatch THEN <<>>
        ELSE <<ClauseContent(line, m)>> \o ClausesFrom(line, m[2] + 1)

SelectStatus(cs) == SelectSeq(cs, IsStatusContent)

\* The contents of the status clauses contained in the lines ls, in order.
RECURSIVE StatusClauses(_)
StatusClauses(ls) ==
    IF ls = <<>> THEN <<>>
    ELSE SelectStatus(ClausesFrom(Head(ls), 1)) \o StatusClauses(Tail(ls))

\* C2: whatever the number of clauses on each line, once the generator is
\* exhausted it has yielded exactly one record per status clause contained
\* in the text, in the order in which the status clauses occur.
C2_OneRecordPerStatusClause ==
    CriteriaDone =>
        LET sc == StatusClauses(lines)
        IN  /\ Len(records) = Len(sc)
            /\ \A k \in 1..Len(records) :
                  /\ records[k].status = CriteriaRecord(sc[k], None).status
                  /\ records[k].message = CriteriaRecord(sc[k], None).message

StatusNameSet == {status_names[k] : k \in 1..Len(status_names)}

\* C8: every yielded record has a status equal to exactly one of CRITICAL,
\* WARNING, OK, also for a status clause without a comma and for a clause
\* whose first word merely starts with a status token.
C8_StatusIsAStatusName ==
    \A k \in 1..Len(records) : records[k].status \in StatusNameSet

(***************************************************************************)
(* Properties of _get_check_details and check_details                      *)
(***************************************************************************)
RedirectedNames == {"warning_threshold", "critical_threshold"}

\* The items of doc whose expression the loop parses: every alarm and every
\* check-wide detail, those with the keys args, file and url left out.
ProcessedItems(doc) ==
    {i \in 1..Len(Chain(doc)) : Chain(doc)[i].key \notin {"file", "url"}}

FreeVars(doc, i) == find_undeclared_variables(Chain(doc)[i].value)

\* The names an expression's free variables stand for: the ignore-list
\* names removed, a redirected name replaced by its target.
Resolved(U) ==
    ((U \ ignore) \ RedirectedNames)
        \cup {redirect[rk] : rk \in U \cap RedirectedNames}

\* The entry of the returned mapping an item's defaults belong to.
EntryOf(doc, i) ==
    IF Chain(doc)[i].key \in Keys(CheckDetails(doc))
    THEN "_check_variables" ELSE Chain(doc)[i].key

\* _get_check_details is about to return `details`.
Returning == pc = "details" /\ item > Len(Chain(rendered_yaml))

\* The template file a pair was yielded for.
TemplateOf(name) ==
    templates[CHOOSE i \in 1..Len(templates) : templates[i].name = name]

\* C3: none of the ignore-list names is a key of an AlarmDetails mapping,
\* neither of the mapping under construction nor of a yielded one, neither
\* in an alarm's entry nor in _check_variables.
C3_IgnoredNamesAreNoKeys ==
    /\ \A key \in DOMAIN details : DOMAIN details[key] \cap ignore = {}
    /\ \A k \in 1..Len(output) : \A key \in DOMAIN output[k].details :
          DOMAIN output[k].details[key] \cap ignore = {}

\* C3 witness: a pair was yielded for a document in which one ignore-list
\* name is free in two processed expressions, one of them also holding a
\* redirected name whose target made it into the yielded details.
C3_Witness ==
    /\ pc = "scan"
    /\ Len(output) = 1
    /\ \E i, j \in ProcessedItems(rendered_yaml) :
          /\ i # j
          /\ FreeVars(rendered_yaml, i) \cap FreeVars(rendered_yaml, j)
                \cap ignore # {}
          /\ FreeVars(rendered_yaml, i) \cap RedirectedNames # {}
    /\ \E key \in DOMAIN output[1].details :
          "maas_filesystem_critical_threshold" \in DOMAIN output[1].details[key]

\* C4: when _get_check_details returns, for every processed expression in
\* which a redirected name is free, the AlarmDetails the expression belongs
\* to has the redirect target as key with the target's ConfigVariables
\* value, no AlarmDetails has the original name as key, and
\* ConfigVariables[original name] equals ConfigVariables[target name].
C4_RedirectedNameGivesTarget ==
    Returning =>
        \A i \in ProcessedItems(rendered_yaml) :
            \A rk \in FreeVars(rendered_yaml, i) \cap RedirectedNames :
                LET e == EntryOf(rendered_yaml, i)
                    t == redirect[rk]
                IN  /\ t \in DOMAIN config_variables
                    /\ e \in DOMAIN details
                    /\ t \in DOMAIN details[e]
                    /\ details[e][t] = config_variables[t]
                    /\ \A key \in DOMAIN details : rk \notin DOMAIN details[key]
                    /\ rk \in DOMAIN config_variables
                    /\ config_variables[rk] = config_variables[t]

\* C4 witness: the call returns for a document with an alarm whose criteria
\* refers to warning_threshold; the alarm's entry holds the target with its
\* value and ConfigVariables holds that value under warning_threshold.
C4_Witness ==
    /\ Returning
    /\ \E i \in 1..Len(Alarms(rendered_yaml)) :
          /\ "warning_threshold" \in FreeVars(rendered_yaml, i)
          /\ Chain(rendered_yaml)[i].key \in DOMAIN details
          /\ "maas_filesystem_warning_threshold"
                \in DOMAIN details[Chain(rendered_yaml)[i].key]
    /\ config_variables["warning_threshold"] = <<"8", "0">>

\* Every name the processed expressions of doc stand for is a key of config
\* and of the AlarmDetails dets holds for its expression.
AllDefaultsResolved(doc, dets, config) ==
    \A i \in ProcessedItems(doc) : \A v \in Resolved(FreeVars(doc, i)) :
        /\ v \in DOMAIN config
        /\ EntryOf(doc, i) \in DOMAIN dets
        /\ v \in DOMAIN dets[EntryOf(doc, i)]
        /\ dets[EntryOf(doc, i)][v] = config[v]

\* C5: _get_check_details returns a mapping, and check_details yields a
\* pair, only for a document all of whose processed expressions stand for
\* keys of ConfigVariables, and the mapping holds every one of them with
\* its default: with a name that has no default the call raises, no pair is
\* yielded for the check, and no mapping silently omits the name.
C5_MissingDefaultFailsTheCheck ==
    /\ Returning => AllDefaultsResolved(rendered_yaml, details, config_variables)
    /\ \A k \in 1..Len(output) :
          AllDefaultsResolved(TemplateOf(yielded_for[k]).doc, output[k].details,
                              config_variables)

\* C5 witness: the call raised at an expression that stands for a name
\* without default, after an earlier expression's defaults were stored, and
\* no pair was yielded for the check.
C5_Witness ==
    /\ pc = "failed"
    /\ item \in ProcessedItems(rendered_yaml)
    /\ \E v \in Resolved(FreeVars(rendered_yaml, item)) :
          v \notin DOMAIN config_variables
    /\ details # <<>>
    /\ \A k \in 1..Len(yielded_for) : yielded_for[k] # templates[pos].name

\* C6: when a check template fails, the run goes on: at the end of the run
\* every template file that is not skipped and does not fail itself has
\* produced its pair.
C6_FailureIsFatalForOneCheckOnly ==
    pc \in {"done", "failed"} =>
        \A i \in 1..Len(templates) :
            ( /\ ~IsSkipped(templates[i].name)
              /\ templates[i].parses
              /\ _get_check_details(templates[i].doc, config_variables).ok )
            => \E k \in 1..Len(yielded_for) : yielded_for[k] = templates[i].name

SkipNames == {"checks_base.yaml.j2", "ceph_rgw_stats.yaml.j2"}

NotSkipped(t) == t.name \notin SkipNames

\* C7: the two skipped files are never loaded and no pair is yielded for
\* them; a run that ends without error has yielded exactly one pair for
\* each other file, in the order of the directory.
C7_SkippedFilesNeverYield ==
    /\ loaded \cap SkipNames = {}
    /\ \A k \in 1..Len(yielded_for) : yielded_for[k] \notin SkipNames
    /\ Len(output) = Len(yielded_for)
    /\ pc = "done" =>
          LET rest == SelectSeq(templates, NotSkipped)
          IN  /\ Len(output) = Len(rest)
              /\ \A k \in 1..Len(rest) : yielded_for[k] = rest[k].name

\* C7 witness: a run over a directory that holds a skipped file ended
\* without error, with two pairs yielded.
C7_Witness ==
    /\ pc = "done"
    /\ \E i \in 1..Len(templates) : templates[i].name \in SkipNames
    /\ Len(output) = 2

\* The check-wide details of doc whose expression is processed.
DetailItems(doc) ==
    {i \in ProcessedItems(doc) : i > Len(Alarms(doc))}

\* C9: in the mapping _get_check_details returns, _check_variables is
\* present only if a check-wide detail expression contributed a default,
\* and then it holds exactly the resolved defaults of all the check-wide
\* detail expressions.
C9_CheckVariablesIsTheUnionOfDetails ==
    Returning =>
        LET names == UNION {Resolved(FreeVars(rendered_yaml, i)) :
                              i \in DetailItems(rendered_yaml)}
        IN  /\ "_check_variables" \in DOMAIN details <=> names # {}
            /\ "_check_variables" \in DOMAIN details =>
                  /\ DOMAIN details["_check_variables"] = names
                  /\ \A v \in names :
                        /\ v \in DOMAIN config_variables
                        /\ details["_check_variables"][v] = config_variables[v]

\* The keys whose value differs between the mappings f and g, a key of
\* only one of them included.
Changed(f, g) ==
    {k \in DOMAIN f \cup DOMAIN g :
        \/ k \notin DOMAIN f
        \/ k \notin DOMAIN g
        \/ f[k] # g[k]}

\* C10: in every step of a run ConfigVariables changes at most at the keys
\* warning_threshold and critical_threshold, and at one of them only inside
\* a call of _get_check_details on a document in which that name is a free
\* variable of an expression; the step in which the call raises included.
C10_OnlyRedirectionWritesConfig ==
    [][\A k \in Changed(config_variables, config_variables') :
          /\ pc = "details"
          /\ k \in RedirectedNames
          /\ \E i \in 1..Len(Chain(rendered_yaml)) : k \in FreeVars(rendered_yaml, i)
      ]_vars

\* C10 witness: the call raised for a name without default after the
\* redirection of an earlier expression wrote warning_threshold.
C10_Witness ==
    /\ pc = "failed"
    /\ item \in ProcessedItems(rendered_yaml)
    /\ "undocumented_var" \in FreeVars(rendered_yaml, item)
    /\ "warning_threshold" \in DOMAIN config_variables
    /\ config_variables["warning_threshold"] = <<"8", "0">>

\* C11: when _get_check_details returns, every alarm name of the document
\* is a key of the returned mapping, and the alarm's AlarmDetails holds
\* under _criteria the records parsed from the alarm's own criteria rendered
\* with ConfigVariables; also for an alarm named like a key of the
\* document's details and for the alarm names file and url.
C11_EveryAlarmHasItsCriteria ==
    Returning =>
        \A i \in 1..Len(Alarms(rendered_yaml)) :
            LET a == Alarms(rendered_yaml)[i]
            IN  /\ a.key \in DOMAIN details
                /\ "_criteria" \in DOMAIN details[a.key]
                /\ details[a.key]["_criteria"]
                      = _get_criteria(Render(a.value, config_variables))

====
